---- MODULE Spec2Model ----
(***************************************************************************)
(* SmartInvest.ai dashboard: the StockAnalysis component (two versions of  *)
(* components/StockAnalysis.tsx: the plain one that stores the raw         *)
(* response, and the transforming one that reshapes it) and the Home page  *)
(* (app/page.tsx), with the /analysis/complete/{symbol} response they      *)
(* consume.                                                                *)
(*                                                                         *)
(* Numbers.  Every fractional quantity of the program (sentiment scores,   *)
(* confidences, ratios) is held in thousandths: the integer v stands for   *)
(* v / 1000, so 0.1 is 100, 0.85 is 850 and the percentage 80 is 80000.    *)
(* Counts are plain integers.  market_cap is held in billions.             *)
(* Symbols are sequences of one-character strings so that upper-casing is  *)
(* computed character by character.                                        *)
(***************************************************************************)
EXTENDS Integers, Sequences, FiniteSets, TLC

\* ------------------------------------------------------------------ bounds
\* Most articles an upstream response carries.
MaxArticles == 6
\* Most analysis requests one StockAnalysis instance issues (mount + symbol changes).
MaxFetches == 3
\* Largest absolute sentiment score handed to the badges, in thousandths.
MaxScore == 150

\* ------------------------------------------------------------------ JSON values
Null == [tag |-> "null"]
Unparsable == [tag |-> "unparsable"]

IsObject(v) == v.tag = "object"
Has(v, f) == f \in DOMAIN v

RECURSIVE SumScores(_)
SumScores(arts) ==
  IF arts = <<>> THEN 0 ELSE Head(arts).sentiment_score + SumScores(Tail(arts))

\* ------------------------------------------------------------------ symbols
AAPL == <<"A", "A", "P", "L">>
Symbols == { AAPL, <<"m", "s", "f", "t">> }

UpperChar(c) ==
  CASE c = "a" -> "A" [] c = "p" -> "P" [] c = "l" -> "L"
    [] c = "m" -> "M" [] c = "s" -> "S" [] c = "f" -> "F" [] c = "t" -> "T"
    [] OTHER -> c

\* str.upper() of the requested ticker
ToUpper(sym) == [i \in 1..Len(sym) |-> UpperChar(sym[i])]

\* ------------------------------------------------------------------ sentiment labels
\* StockAnalysis.getSentimentLabel
getSentimentLabelInclusive(score) ==
  IF score >= 100 THEN "Bullish"
  ELSE IF score <= -100 THEN "Bearish"
  ELSE "Neutral"

getSentimentLabel(score) ==
  IF score > 100 THEN "Bullish"
  ELSE IF score < -100 THEN "Bearish"
  ELSE "Neutral"

\* StockAnalysis.getSentimentColor
getSentimentColorInclusive(score) ==
  IF score >= 100 THEN "text-green-600 bg-green-100"
  ELSE IF score <= -100 THEN "text-red-600 bg-red-100"
  ELSE "text-gray-600 bg-gray-100"

getSentimentColor(score) ==
  IF score > 100 THEN "text-green-600 bg-green-100"
  ELSE IF score < -100 THEN "text-red-600 bg-red-100"
  ELSE "text-gray-600 bg-gray-100"

\* StockAnalysis: the per-article badge text
ArticleBadgeLabel(sentiment_score) ==
  IF sentiment_score > 100 THEN "Positive"
  ELSE IF sentiment_score < -100 THEN "Negative"
  ELSE "Neutral"

\* StockAnalysis: the per-article badge class
ArticleBadgeColor(sentiment_score) ==
  IF sentiment_score > 100 THEN "bg-green-100 text-green-700"
  ELSE IF sentiment_score < -100 THEN "bg-red-100 text-red-700"
  ELSE "bg-gray-100 text-gray-700"

\* Home: the per-article badge text (rendered when sentiment_score is defined)
HomeBadgeLabel(sentiment_score) ==
  IF sentiment_score > 100 THEN "Positive"
  ELSE IF sentiment_score < -100 THEN "Negative"
  ELSE "Neutral"

\* Home: the per-article badge class
HomeBadgeColor(sentiment_score) ==
  IF sentiment_score > 100 THEN "bg-green-100 text-green-700"
  ELSE IF sentiment_score < -100 THEN "bg-red-100 text-red-700"
  ELSE "bg-gray-100 text-gray-700"

\* ------------------------------------------------------------------ upstream data
\* The scored articles the News Client and Sentiment Scorer hand to the
\* Aggregator: article i of a response, with its sentiment score.
ArticleScores == <<500, 101, -100, -500, 100, 0, -101, 1000>>

Article(i) ==
  [id |-> i, sentiment_score |-> ArticleScores[((i - 1) % Len(ArticleScores)) + 1]]

\* n consecutive articles, starting after article o
ArticleListFrom(o, n) == [i \in 1..n |-> Article(o + i)]
ArticleList(n) == ArticleListFrom(0, n)

\* RSI values the Fundamentals Processor reports (55 inside the bounds, 75 overbought).
RsiValues == {55000, 75000}

CountWhere(arts, label) ==
  Cardinality({i \in 1..Len(arts) : ArticleBadgeLabel(arts[i].sentiment_score) = label})

\* ------------------------------------------------------------------ Aggregator
\* SentimentSummary over the scored articles.
AggregateSentiment(arts) ==
  [overall_sentiment |-> IF arts = <<>> THEN 0 ELSE SumScores(arts) \div Len(arts),
   positive_count |-> CountWhere(arts, "Positive"),
   negative_count |-> CountWhere(arts, "Negative"),
   neutral_count |-> CountWhere(arts, "Neutral"),
   news_articles |-> arts]

\* FundamentalMetrics of the response.
AggregateFundamentals(rsi) ==
  [fundamental_metrics |->
     [trailing_pe |-> 25000, price_to_book |-> 8000,
      return_on_equity |-> 300, market_cap |-> 2500],
   technical_indicators |-> [momentum_indicators |-> [RSI |-> rsi]],
   risk_metrics |-> [volatility |-> 250]]

\* Recommendation: bullish sentiment with RSI inside the overbought/oversold
\* bounds gives Buy, bearish sentiment or an extreme RSI gives Sell, else Hold;
\* the confidence is the share of articles on the prevailing side, in [0, 1].
DeriveRecommendation(sent, rsi) ==
  LET n == Len(sent.news_articles)
      extreme == rsi > 70000 \/ rsi < 30000
      lead == IF sent.positive_count >= sent.negative_count
              THEN sent.positive_count ELSE sent.negative_count
  IN [action |-> IF sent.overall_sentiment > 100 /\ ~extreme THEN "Buy"
                 ELSE IF sent.overall_sentiment < -100 \/ extreme THEN "Sell"
                 ELSE "Hold",
      confidence_score |-> IF n = 0 THEN 0 ELSE (lead * 1000) \div n,
      supporting_factors |->
        <<getSentimentLabel(sent.overall_sentiment),
          IF extreme THEN "RSI extreme" ELSE "RSI neutral">>]

\* The composed body of GET /analysis/complete/{symbol}.
CompleteAnalysis(sym, n, rsi) ==
  LET sent == AggregateSentiment(ArticleList(n))
  IN [tag |-> "object",
      symbol |-> ToUpper(sym),
      complete_analysis |->
        [sentiment_analysis |-> sent,
         fundamental_analysis |-> AggregateFundamentals(rsi),
         recommendation |-> DeriveRecommendation(sent, rsi)]]

\* A sentiment section whose news list is missing.
WithoutNews(sent) ==
  [overall_sentiment |-> sent.overall_sentiment,
   positive_count |-> sent.positive_count,
   negative_count |-> sent.negative_count,
   neutral_count |-> sent.neutral_count]

\* The composed body with one section degraded: a failed sub-component
\* leaves a null section (or no news list) in an otherwise complete body.
Sections == {"sentiment_analysis", "fundamental_analysis", "recommendation"}
Degradations == Sections \cup {"news_articles"}

Degrade(body, part) ==
  LET ca == body.complete_analysis
  IN [body EXCEPT !.complete_analysis =
        IF part = "news_articles"
        THEN [ca EXCEPT !.sentiment_analysis = WithoutNews(ca.sentiment_analysis)]
        ELSE [ca EXCEPT ![part] = Null]]

\* The body of an error answer, e.g. {"detail": "..."}.
ErrorBody == [tag |-> "object", detail |-> "error"]

FullBodies(sym) == {CompleteAnalysis(sym, n, rsi) : n \in 0..MaxArticles, rsi \in RsiValues}
DegradedBodies(sym) == {Degrade(CompleteAnalysis(sym, 2, 55000), part) : part \in Degradations}

\* What response.json() can settle with for a request of sym.
BodiesBySymbol ==
  [sym \in Symbols |->
     FullBodies(sym) \cup DegradedBodies(sym) \cup {ErrorBody, Null, Unparsable}]
Bodies(sym) == BodiesBySymbol[sym]

\* The quotes of GET /stocks/multiple?symbols=AAPL,GOOGL,MSFT,TSLA, in request order.
HomeSymbols == <<"AAPL", "GOOGL", "MSFT", "TSLA">>
Quote(i) == [symbol |-> HomeSymbols[i], price |-> 100 * i]
\* The quotes of the symbols S (indices into HomeSymbols), in request order.
QuoteList(S) ==
  [k \in 1..Cardinality(S) |->
     Quote(CHOOSE i \in S : Cardinality({j \in S : j < i}) = k - 1)]

\* The markers of the requested symbols outside S, in request order.
QuoteErrors(S) ==
  LET T == (1..Len(HomeSymbols)) \ S
  IN [k \in 1..Cardinality(T) |->
        [symbol |-> HomeSymbols[CHOOSE i \in T : Cardinality({j \in T : j < i}) = k - 1],
         error |-> "not found"]]

\* The batch quote body when the provider knows the symbols S of the four
\* requested: the quotes obtained in data, a marker for each other symbol.
BatchQuotes(S) == [tag |-> "object", data |-> QuoteList(S), errors |-> QuoteErrors(S)]

\* What stockResponse.json() can settle with: a batch body (all, some or
\* none of the four quotes), or a body without data.
StockBodies ==
  {BatchQuotes(S) : S \in SUBSET (1..Len(HomeSymbols))}
    \cup {ErrorBody, Null, Unparsable}

\* What newsResponse.json() can settle with: the article list of
\* GET /news/AAPL?days=1, or a body that is no list (an object, null, a JSON
\* string, empty or not; a string is the sequence of its characters).
NewsOffsets == {0, 3}
NewsStrings == {<<>>, [k \in 1..5 |-> [char |-> <<"e", "r", "r", "o", "r">>[k]]]}
NewsBodies ==
  {[tag |-> "array", items |-> ArticleListFrom(o, n)] : o \in NewsOffsets, n \in 0..MaxArticles}
    \cup {[tag |-> "string", chars |-> c] : c \in NewsStrings}
    \cup {ErrorBody, Null, Unparsable}

\* ------------------------------------------------------------------ StockAnalysis
\* Whether the transformation reads data without a TypeError: every property
\* chain data.complete_analysis.<section>.<...> it dereferences exists.
Readable(data) ==
  /\ IsObject(data)
  /\ Has(data, "complete_analysis")
  /\ \A part \in Sections : data.complete_analysis[part] # Null

\* x || fallback for a number x
OrElse(x, fallback) == IF x = 0 THEN fallback ELSE x

\* transformedData.sentiment
TransformSentimentPercent(sa, rec) ==
  [overall_sentiment |-> sa.overall_sentiment,
   positive_count |-> sa.positive_count,
   negative_count |-> sa.negative_count,
   neutral_count |-> sa.neutral_count,
   confidence |-> OrElse(rec.confidence_score, 850) * 100]

TransformSentiment(sa, rec) ==
  [overall_sentiment |-> sa.overall_sentiment,
   positive_count |-> sa.positive_count,
   negative_count |-> sa.negative_count,
   neutral_count |-> sa.neutral_count,
   confidence |-> OrElse(rec.confidence_score, 850)]

\* transformedData.fundamentals
TransformFundamentalsRawVolatility(fa) ==
  [pe_ratio |-> fa.fundamental_metrics.trailing_pe,
   pb_ratio |-> fa.fundamental_metrics.price_to_book,
   roe |-> fa.fundamental_metrics.return_on_equity * 100,
   market_cap |-> fa.fundamental_metrics.market_cap,
   rsi |-> fa.technical_indicators.momentum_indicators.RSI,
   volatility |-> fa.risk_metrics.volatility]

TransformFundamentals(fa) ==
  [pe_ratio |-> fa.fundamental_metrics.trailing_pe,
   pb_ratio |-> fa.fundamental_metrics.price_to_book,
   roe |-> fa.fundamental_metrics.return_on_equity * 100,
   market_cap |-> fa.fundamental_metrics.market_cap,
   rsi |-> fa.technical_indicators.momentum_indicators.RSI,
   volatility |-> fa.risk_metrics.volatility * 100]

\* transformedData.recommendation
TransformRecommendationWrongField(rec) ==
  [action |-> IF Has(rec, "recommendation") THEN rec.recommendation ELSE "undefined",
   confidence |-> rec.confidence_score * 100,
   reasoning |-> rec.supporting_factors]

TransformRecommendation(rec) ==
  [action |-> rec.action,
   confidence |-> rec.confidence_score * 100,
   reasoning |-> rec.supporting_factors]

\* transformedData of the transforming fetchAnalysis
TransformData(data) ==
  LET ca == data.complete_analysis
      sa == ca.sentiment_analysis
  IN [tag |-> "analysis",
      symbol |-> data.symbol,
      sentiment |-> TransformSentiment(sa, ca.recommendation),
      fundamentals |-> TransformFundamentals(ca.fundamental_analysis),
      recommendation |-> TransformRecommendation(ca.recommendation),
      news_articles |-> IF Has(sa, "news_articles") THEN sa.news_articles ELSE <<>>]

MockReasoning ==
  <<"Strong fundamental metrics with healthy P/E ratio",
    "Positive sentiment trend in recent news",
    "Technical indicators showing oversold condition">>

\* The mock record of the plain fetchAnalysis (no news_articles field).
PlainMockData(symbol) ==
  [tag |-> "analysis",
   symbol |-> symbol,
   sentiment |->
     [overall_sentiment |-> 250, positive_count |-> 12, negative_count |-> 5,
      neutral_count |-> 8, confidence |-> 850],
   fundamentals |->
     [pe_ratio |-> 30480, pb_ratio |-> 43970, roe |-> 138020,
      market_cap |-> 3020, rsi |-> 43400, volatility |-> 32250],
   recommendation |->
     [action |-> "Buy", confidence |-> 80000, reasoning |-> MockReasoning]]

\* The mock record of the transforming fetchAnalysis.
MockDataDefaultSymbol(symbol) ==
  [PlainMockData(AAPL) EXCEPT !.symbol = AAPL] @@ [news_articles |-> <<>>]

MockData(symbol) ==
  [tag |-> "analysis",
   symbol |-> symbol,
   sentiment |->
     [overall_sentiment |-> 250, positive_count |-> 12, negative_count |-> 5,
      neutral_count |-> 8, confidence |-> 850],
   fundamentals |->
     [pe_ratio |-> 30480, pb_ratio |-> 43970, roe |-> 138020,
      market_cap |-> 3020, rsi |-> 43400, volatility |-> 32250],
   recommendation |->
     [action |-> "Buy", confidence |-> 80000, reasoning |-> MockReasoning],
   news_articles |-> <<>>]

\* The two versions of components/StockAnalysis.tsx.
Versions == {"plain", "transforming"}

VARIABLES
  version,       \* which StockAnalysis is mounted
  symbol,        \* StockAnalysis: the symbol prop
  analysisData,  \* StockAnalysis: useState<AnalysisData | null>
  loading,       \* StockAnalysis: useState(true)
  fetches,       \* StockAnalysis: the fetchAnalysis calls, in the order issued
  lastSettled,   \* the fetchAnalysis call that ran its try/catch/finally last
  stockData,     \* Home: useState<StockData[]>([])
  newsData,      \* Home: useState<NewsArticle[]>([])
  homeLoading,   \* Home: useState(true)
  homePc,        \* Home: where fetchData stands
  stockResult,   \* Home: what stockResponse.json() settled with
  newsResult,    \* Home: what newsResponse.json() settled with
  score,         \* a sentiment score handed to the badges
  shown,         \* the badges rendered for score
  firstRun       \* an earlier settled fetchAnalysis call and what it left

saVars == <<version, symbol, analysisData, loading, fetches, lastSettled>>
homeVars == <<stockData, newsData, homeLoading, homePc, stockResult, newsResult>>
labelVars == <<score, shown>>
vars == <<version, symbol, analysisData, loading, fetches, lastSettled,
          stockData, newsData, homeLoading, homePc, stockResult, newsResult,
          score, shown, firstRun>>

NoBody == [tag |-> "none"]
NoneSettled ==
  [kind |-> "none", fetch |-> 0, symbol |-> <<>>, cause |-> "none", data |-> NoBody]
NotShown == [rendered |-> FALSE]
NotTaken == [taken |-> FALSE]

InitStockAnalysis ==
  /\ version \in Versions
  /\ symbol \in Symbols
  /\ analysisData = Null
  /\ loading = TRUE
  /\ fetches = <<>>
  /\ lastSettled = NoneSettled

InitHome ==
  /\ stockData = <<>>
  /\ newsData = <<>>
  /\ homeLoading = TRUE
  /\ homePc = "mount"
  /\ stockResult = NoBody
  /\ newsResult = NoBody

InitLabels == score = 0 /\ shown = NotShown

Init == InitStockAnalysis /\ InitHome /\ InitLabels /\ firstRun = NotTaken

\* fetchAnalysis up to its first await: the request for the closure's symbol.
StartFetch(sym) ==
  /\ Len(fetches) < MaxFetches
  /\ fetches' = Append(fetches, [symbol |-> sym, stage |-> "fetch"])
  /\ loading' = IF version = "transforming" THEN TRUE ELSE loading

\* useEffect on mount
Mount ==
  /\ fetches = <<>>
  /\ StartFetch(symbol)
  /\ UNCHANGED <<version, symbol, analysisData, lastSettled>>

\* useEffect on a change of the symbol prop
SymbolChange(sym) ==
  /\ fetches # <<>>
  /\ sym # symbol
  /\ symbol' = sym
  /\ StartFetch(sym)
  /\ UNCHANGED <<version, analysisData, lastSettled>>

\* catch (error) { setAnalysisData(mock) } finally { setLoading(false) }
CatchLogsOnly(i, cause, data) ==
  /\ loading' = FALSE
  /\ fetches' = [fetches EXCEPT ![i].stage = "done"]
  /\ lastSettled' = [kind |-> "failed", fetch |-> i, symbol |-> fetches[i].symbol,
                     cause |-> cause, data |-> data]
  /\ UNCHANGED analysisData

CatchCurrentSymbol(i, cause, data) ==
  /\ analysisData' = IF version = "transforming"
                     THEN MockData(symbol)
                     ELSE PlainMockData(symbol)
  /\ loading' = FALSE
  /\ fetches' = [fetches EXCEPT ![i].stage = "done"]
  /\ lastSettled' = [kind |-> "failed", fetch |-> i, symbol |-> fetches[i].symbol,
                     cause |-> cause, data |-> data]

Catch(i, cause, data) ==
  /\ analysisData' = IF version = "transforming"
                     THEN MockData(fetches[i].symbol)
                     ELSE PlainMockData(fetches[i].symbol)
  /\ loading' = FALSE
  /\ fetches' = [fetches EXCEPT ![i].stage = "done"]
  /\ lastSettled' = [kind |-> "failed", fetch |-> i, symbol |-> fetches[i].symbol,
                     cause |-> cause, data |-> data]

\* try { ...; setAnalysisData(value) } finally { setLoading(false) }
Succeed(i, data, value) ==
  /\ analysisData' = value
  /\ loading' = FALSE
  /\ fetches' = [fetches EXCEPT ![i].stage = "done"]
  /\ lastSettled' = [kind |-> "ok", fetch |-> i, symbol |-> fetches[i].symbol,
                     cause |-> "none", data |-> data]

\* await fetch(...) rejects
FetchRejected(i) ==
  /\ fetches[i].stage = "fetch"
  /\ Catch(i, "rejected", NoBody)
  /\ UNCHANGED <<version, symbol>>

\* await fetch(...) fulfils with a response of the given ok flag
FetchFulfilled(i, ok) ==
  /\ fetches[i].stage = "fetch"
  /\ IF version = "transforming" /\ ~ok
     THEN Catch(i, "status", NoBody)
     ELSE /\ fetches' = [fetches EXCEPT ![i].stage = "json"]
          /\ UNCHANGED <<analysisData, loading, lastSettled>>
  /\ UNCHANGED <<version, symbol>>

\* await response.json() settles: it rejects (body unparsable) or fulfils with body
JsonSettled(i, body) ==
  /\ fetches[i].stage = "json"
  /\ IF body = Unparsable
     THEN Catch(i, "unparsable", body)
     ELSE IF version = "plain"
     THEN Succeed(i, body, body)
     ELSE IF Readable(body)
     THEN Succeed(i, body, TransformData(body))
     ELSE Catch(i, "unreadable", body)
  /\ UNCHANGED <<version, symbol>>

StockAnalysisNext ==
  \/ Mount
  \/ \E sym \in Symbols : SymbolChange(sym)
  \/ \E i \in 1..Len(fetches) : FetchRejected(i)
  \/ \E i \in 1..Len(fetches), ok \in BOOLEAN : FetchFulfilled(i, ok)
  \/ \E i \in 1..Len(fetches) : \E body \in Bodies(fetches[i].symbol) : JsonSettled(i, body)

\* ------------------------------------------------------------------ Home
\* catch (error) { console.error } finally { setLoading(false) }
HomeCatchContinues ==
  IF homePc \in {"stockFetch", "stockJson"}
  THEN homePc' = "newsFetch" /\ UNCHANGED <<stockData, newsData, homeLoading>>
  ELSE homePc' = "done" /\ homeLoading' = FALSE /\ UNCHANGED <<stockData, newsData>>

HomeCatchWithoutFinally ==
  /\ homePc' = "done"
  /\ UNCHANGED <<stockData, newsData, homeLoading>>

HomeCatchRetry ==
  /\ homeLoading' = FALSE
  /\ homePc' = "stockFetch"
  /\ UNCHANGED <<stockData, newsData>>

HomeCatch ==
  /\ homeLoading' = FALSE
  /\ homePc' = "done"
  /\ UNCHANGED <<stockData, newsData>>

\* Array.prototype.slice(0, k)
SliceOneMore(s, k) == IF Len(s) <= k + 1 THEN s ELSE SubSeq(s, 1, k + 1)

Slice(s, k) == IF Len(s) <= k THEN s ELSE SubSeq(s, 1, k)

\* useEffect on mount: fetchData up to await fetch(stocks/multiple)
HomeMount ==
  /\ homePc = "mount"
  /\ homePc' = "stockFetch"
  /\ UNCHANGED <<stockData, newsData, homeLoading, stockResult, newsResult>>

\* await fetch(stocks/multiple) settles; the status is not looked at
StockFetchSettled(fulfilled) ==
  /\ homePc = "stockFetch"
  /\ IF fulfilled
     THEN homePc' = "stockJson" /\ UNCHANGED <<stockData, newsData, homeLoading>>
     ELSE HomeCatch
  /\ UNCHANGED <<stockResult, newsResult>>

\* stockResult.data || []
StockDataAllOrNothing(body) ==
  IF Has(body, "data") /\ Len(body.data) = Len(HomeSymbols) THEN body.data ELSE <<>>

StockDataOf(body) == IF Has(body, "data") THEN body.data ELSE <<>>

\* await stockResponse.json() settles; setStockData(stockResult.data || []);
\* then fetchData runs on to await fetch(news/AAPL)
StockJsonSettledStopsLoading(body) ==
  /\ homePc = "stockJson"
  /\ IF body = Unparsable \/ body = Null
     THEN HomeCatch
     ELSE /\ stockData' = StockDataOf(body)
          /\ homePc' = "newsFetch"
          /\ homeLoading' = FALSE
          /\ UNCHANGED newsData
  /\ stockResult' = body
  /\ UNCHANGED newsResult

StockJsonSettled(body) ==
  /\ homePc = "stockJson"
  /\ IF body = Unparsable \/ body = Null
     THEN HomeCatch
     ELSE /\ stockData' = StockDataOf(body)
          /\ homePc' = "newsFetch"
          /\ UNCHANGED <<newsData, homeLoading>>
  /\ stockResult' = body
  /\ UNCHANGED newsResult

\* await fetch(news/AAPL) settles
NewsFetchSettled(fulfilled) ==
  /\ homePc = "newsFetch"
  /\ IF fulfilled
     THEN homePc' = "newsJson" /\ UNCHANGED <<stockData, newsData, homeLoading>>
     ELSE HomeCatch
  /\ UNCHANGED <<stockResult, newsResult>>

\* newsResult.slice(0, 3) || []: Array.prototype.slice on a list,
\* String.prototype.slice on a string (the empty string is falsy); any other
\* value has no slice and the call throws a TypeError.
NewsDataOf(body) ==
  IF body.tag = "array" THEN Slice(body.items, 3) ELSE Slice(body.chars, 3)

\* await newsResponse.json() settles; setNewsData(newsResult.slice(0, 3) || [])
NewsJsonSettled(body) ==
  /\ homePc = "newsJson"
  /\ IF body.tag \in {"array", "string"}
     THEN /\ newsData' = NewsDataOf(body)
          /\ homeLoading' = FALSE
          /\ homePc' = "done"
          /\ UNCHANGED stockData
     ELSE HomeCatch
  /\ newsResult' = body
  /\ UNCHANGED stockResult

HomeNext ==
  \/ HomeMount
  \/ \E fulfilled \in BOOLEAN : StockFetchSettled(fulfilled)
  \/ \E body \in StockBodies : StockJsonSettled(body)
  \/ \E fulfilled \in BOOLEAN : NewsFetchSettled(fulfilled)
  \/ \E body \in NewsBodies : NewsJsonSettled(body)

\* ------------------------------------------------------------------ rendering
\* StockAnalysis: the articles of the "Recent News Articles" list; the
\* skeleton (loading) and the null return render none.
RenderedArticles ==
  IF loading \/ analysisData = Null \/ ~Has(analysisData, "news_articles")
  THEN <<>>
  ELSE Slice(analysisData.news_articles, 5)

\* ------------------------------------------------------------------ badges
\* What the three badges show for score: the overall badge of StockAnalysis,
\* its per-article badge, and the per-article badge of Home.
RenderBadges ==
  /\ ~shown.rendered
  /\ shown' = [rendered |-> TRUE,
               overallLabel |-> getSentimentLabel(score),
               overallColor |-> getSentimentColor(score),
               articleLabel |-> ArticleBadgeLabel(score),
               articleColor |-> ArticleBadgeColor(score),
               homeLabel |-> HomeBadgeLabel(score),
               homeColor |-> HomeBadgeColor(score)]
  /\ UNCHANGED <<saVars, homeVars, score, firstRun>>

\* ------------------------------------------------------------------ specifications
\* The StockAnalysis component.
Next == StockAnalysisNext /\ UNCHANGED <<homeVars, labelVars, firstRun>>

Spec == Init /\ [][Next]_vars

\* The Home page.
HomeOnlyNext == HomeNext /\ UNCHANGED <<saVars, labelVars, firstRun>>

HomeSpec == Init /\ [][HomeOnlyNext]_vars

\* The Home page when the network settles every request: the mount effect
\* runs, and each pending fetch or body read eventually fulfils or rejects.
HomeSettlingSpec == Init /\ [][HomeOnlyNext]_vars /\ WF_vars(HomeOnlyNext)

\* The badges, for every score of -MaxScore..MaxScore.
InitBadges ==
  /\ InitStockAnalysis /\ InitHome /\ firstRun = NotTaken
  /\ score \in -MaxScore..MaxScore
  /\ shown = NotShown

SpecLabels == InitBadges /\ [][RenderBadges]_vars

\* Two fetchAnalysis calls of one component compared: Observe keeps what an
\* earlier call received and left in analysisData.
Observe ==
  /\ ~firstRun.taken
  /\ lastSettled.kind # "none"
  /\ firstRun' = [taken |-> TRUE, settled |-> lastSettled, result |-> analysisData]
  /\ UNCHANGED <<saVars, homeVars, labelVars>>

RunBodies(sym) ==
  {CompleteAnalysis(sym, 2, 55000), CompleteAnalysis(sym, 0, 75000),
   Degrade(CompleteAnalysis(sym, 2, 55000), "news_articles"), ErrorBody, Unparsable}

RunsNext ==
  \/ Observe
  \/ /\ \/ Mount
        \/ \E sym \in Symbols : SymbolChange(sym)
        \/ \E i \in 1..Len(fetches) : FetchRejected(i)
        \/ \E i \in 1..Len(fetches), ok \in BOOLEAN : FetchFulfilled(i, ok)
        \/ \E i \in 1..Len(fetches) : \E body \in RunBodies(fetches[i].symbol) : JsonSettled(i, body)
     /\ UNCHANGED <<homeVars, labelVars, firstRun>>

SpecRuns == Init /\ [][RunsNext]_vars

\* The page: Home with the StockAnalysis it renders, on a few responses each.
PageBodies(sym) ==
  {CompleteAnalysis(sym, 2, 55000),
   Degrade(CompleteAnalysis(sym, 2, 55000), "fundamental_analysis"), Unparsable}
PageStockBodies == {BatchQuotes(1..Len(HomeSymbols)), ErrorBody, Unparsable}
PageNewsBodies == {[tag |-> "array", items |-> ArticleList(MaxArticles)], ErrorBody}

PageNext ==
  \/ /\ \/ Mount
        \/ \E sym \in Symbols : SymbolChange(sym)
        \/ \E i \in 1..Len(fetches) : FetchRejected(i)
        \/ \E i \in 1..Len(fetches), ok \in BOOLEAN : FetchFulfilled(i, ok)
        \/ \E i \in 1..Len(fetches) : \E body \in PageBodies(fetches[i].symbol) : JsonSettled(i, body)
     /\ UNCHANGED <<homeVars, labelVars, firstRun>>
  \/ /\ \/ HomeMount
        \/ \E fulfilled \in BOOLEAN : StockFetchSettled(fulfilled)
        \/ \E body \in PageStockBodies : StockJsonSettled(body)
        \/ \E fulfilled \in BOOLEAN : NewsFetchSettled(fulfilled)
        \/ \E body \in PageNewsBodies : NewsJsonSettled(body)
     /\ UNCHANGED <<saVars, labelVars, firstRun>>

\* React runs a mounted component's effects; nothing in the code bounds the
\* time a fetch or a body read takes, so no settling step is fair.
PageSpec ==
  /\ Init /\ [][PageNext]_vars
  /\ WF_vars(Mount /\ UNCHANGED <<homeVars, labelVars, firstRun>>)
  /\ WF_vars(HomeMount /\ UNCHANGED <<saVars, labelVars, firstRun>>)

\* The article lists: StockAnalysis, mounted once, and Home on complete
\* responses that differ in their number of articles.
ArticleBodies(sym) ==
  {CompleteAnalysis(sym, n, 55000) : n \in 0..MaxArticles} \cup {Unparsable}

ArticlesNext ==
  \/ /\ \/ Mount
        \/ \E i \in 1..Len(fetches) : FetchRejected(i)
        \/ \E i \in 1..Len(fetches), ok \in BOOLEAN : FetchFulfilled(i, ok)
        \/ \E i \in 1..Len(fetches) : \E body \in ArticleBodies(fetches[i].symbol) : JsonSettled(i, body)
     /\ UNCHANGED <<homeVars, labelVars, firstRun>>
  \/ /\ \/ HomeMount
        \/ \E fulfilled \in BOOLEAN : StockFetchSettled(fulfilled)
        \/ \E body \in PageStockBodies : StockJsonSettled(body)
        \/ \E fulfilled \in BOOLEAN : NewsFetchSettled(fulfilled)
        \/ \E body \in NewsBodies : NewsJsonSettled(body)
     /\ UNCHANGED <<saVars, labelVars, firstRun>>

ArticlesSpec == Init /\ [][ArticlesNext]_vars

\* The page when the network settles every request: while a mount effect, a
\* fetch or a body read is pending, one of them eventually runs, fulfils or
\* rejects. Each pending step stays pending until it is taken, so this is
\* what "every issued fetch eventually settles" gives.
PendingStep ==
  \/ /\ \/ Mount
        \/ \E i \in 1..Len(fetches) : FetchRejected(i)
        \/ \E i \in 1..Len(fetches), ok \in BOOLEAN : FetchFulfilled(i, ok)
        \/ \E i \in 1..Len(fetches) : \E body \in PageBodies(fetches[i].symbol) : JsonSettled(i, body)
     /\ UNCHANGED <<homeVars, labelVars, firstRun>>
  \/ /\ \/ HomeMount
        \/ \E fulfilled \in BOOLEAN : StockFetchSettled(fulfilled)
        \/ \E body \in PageStockBodies : StockJsonSettled(body)
        \/ \E fulfilled \in BOOLEAN : NewsFetchSettled(fulfilled)
        \/ \E body \in PageNewsBodies : NewsJsonSettled(body)
     /\ UNCHANGED <<saVars, labelVars, firstRun>>

\* <StockAnalysis symbol="AAPL" /> as Home mounts it
SettlingInit == Init /\ symbol = AAPL

SettlingSpec == SettlingInit /\ [][PageNext]_vars /\ WF_vars(PendingStep)

\* ------------------------------------------------------------------ claims
Analysed == version = "transforming" /\ analysisData.tag = "analysis"

\* C1: the label shown depends on the score alone: above 0.1 Bullish / Positive,
\* below -0.1 Bearish / Negative, anything else (0.1 and -0.1 included) Neutral,
\* in getSentimentLabel and in the per-article badges of StockAnalysis and Home.
C1_LabelByThreshold ==
  shown.rendered =>
    /\ score > 100 =>
         /\ shown.overallLabel = "Bullish"
         /\ shown.articleLabel = "Positive"
         /\ shown.homeLabel = "Positive"
    /\ score < -100 =>
         /\ shown.overallLabel = "Bearish"
         /\ shown.articleLabel = "Negative"
         /\ shown.homeLabel = "Negative"
    /\ (score >= -100 /\ score <= 100) =>
         /\ shown.overallLabel = "Neutral"
         /\ shown.articleLabel = "Neutral"
         /\ shown.homeLabel = "Neutral"

C1_BoundaryRendered ==
  /\ shown.rendered
  /\ score = 100
  /\ shown.overallLabel = "Neutral"
  /\ shown.articleLabel = "Neutral"
  /\ shown.homeLabel = "Neutral"

\* C2: whenever the analysis fetch fails, the state is marked unavailable and
\* holds no record populated with fixed numbers.
C2_FailureLeavesNoRecord ==
  lastSettled.kind = "failed" => analysisData.tag # "analysis"

\* C3: a fetchAnalysis call of the transforming version that ends on a rejected
\* fetch, a non-OK status, an unparsable body or a body the transformation
\* cannot read sets analysisData to the sample record of its symbol (0.25,
\* 12/5/8, Buy at 80, no news) and leaves loading false; only a readable
\* body of an OK response ends otherwise.
C3_FailureSetsSample ==
  [][\A i \in DOMAIN fetches :
       (version = "transforming" /\ fetches[i].stage # "done" /\ fetches'[i].stage = "done")
         => /\ lastSettled'.fetch = i
            /\ lastSettled'.kind = "ok" => Readable(lastSettled'.data)
            /\ lastSettled'.kind = "failed" =>
                 /\ lastSettled'.cause \in {"rejected", "status", "unparsable", "unreadable"}
                 /\ analysisData'.symbol = fetches[i].symbol
                 /\ analysisData'.sentiment.overall_sentiment = 250
                 /\ analysisData'.sentiment.positive_count = 12
                 /\ analysisData'.sentiment.negative_count = 5
                 /\ analysisData'.sentiment.neutral_count = 8
                 /\ analysisData'.recommendation.action = "Buy"
                 /\ analysisData'.recommendation.confidence = 80000
                 /\ analysisData'.news_articles = <<>>
                 /\ loading' = FALSE]_vars

C3_SampleAfterUnreadableBody ==
  /\ version = "transforming"
  /\ lastSettled.kind = "failed"
  /\ lastSettled.cause = "unreadable"
  /\ lastSettled.symbol # AAPL
  /\ analysisData.symbol = lastSettled.symbol
  /\ analysisData.recommendation.action = "Buy"
  /\ ~loading

\* The last settled call received the complete body with `part` unavailable.
OneSectionMissing(part) ==
  /\ version = "transforming"
  /\ lastSettled.kind # "none"
  /\ lastSettled.data = Degrade(CompleteAnalysis(lastSettled.symbol, 2, 55000), part)

\* C4: a response with exactly one section unavailable degrades only that
\* section: the other sections of analysisData keep the values of the response.
C4_OnlyThatSectionDegraded ==
  \A part \in Degradations :
    OneSectionMissing(part) =>
      LET full == TransformData(CompleteAnalysis(lastSettled.symbol, 2, 55000))
      IN /\ analysisData.tag = "analysis"
         /\ part # "fundamental_analysis" =>
              analysisData.fundamentals = full.fundamentals
         /\ part # "recommendation" =>
              analysisData.recommendation = full.recommendation
         /\ part # "sentiment_analysis" =>
              /\ analysisData.sentiment.overall_sentiment = full.sentiment.overall_sentiment
              /\ analysisData.sentiment.positive_count = full.sentiment.positive_count
              /\ analysisData.sentiment.negative_count = full.sentiment.negative_count
              /\ analysisData.sentiment.neutral_count = full.sentiment.neutral_count
         /\ part \notin {"sentiment_analysis", "news_articles"} =>
              analysisData.news_articles = full.news_articles

\* C5: whenever the news_articles list of an analysis result is empty, its
\* positive, negative and neutral counts are all zero.
C5_EmptyNewsZeroCounts ==
  (Analysed /\ analysisData.news_articles = <<>>) =>
    /\ analysisData.sentiment.positive_count = 0
    /\ analysisData.sentiment.negative_count = 0
    /\ analysisData.sentiment.neutral_count = 0

\* C6: whenever an analysis is available, its recommendation action is one of
\* Buy, Hold, Sell, on the success path and on the fallback path.
C6_ActionIsBuyHoldSell ==
  Analysed => analysisData.recommendation.action \in {"Buy", "Hold", "Sell"}

C6_SellFromResponse ==
  /\ Analysed
  /\ lastSettled.kind = "ok"
  /\ analysisData.recommendation.action = "Sell"
  /\ analysisData.recommendation.action = lastSettled.data.complete_analysis.recommendation.action

\* C7: for a response whose confidence_score lies in [0, 1] the recommendation
\* confidence held is a percentage in [0, 100] and the sentiment confidence a
\* fraction in [0, 1]; the fallback record holds 80 and 0.85.
C7_ConfidenceUnits ==
  /\ (Analysed /\ lastSettled.kind = "ok"
        /\ lastSettled.data.complete_analysis.recommendation.confidence_score \in 0..1000)
       => /\ analysisData.recommendation.confidence \in 0..100000
          /\ analysisData.sentiment.confidence \in 0..1000
  /\ (Analysed /\ lastSettled.kind = "failed")
       => /\ analysisData.recommendation.confidence = 80000
          /\ analysisData.sentiment.confidence = 850

C7_FullConfidence ==
  /\ Analysed
  /\ lastSettled.kind = "ok"
  /\ lastSettled.data.complete_analysis.recommendation.confidence_score = 1000
  /\ analysisData.recommendation.confidence = 100000
  /\ analysisData.sentiment.confidence = 1000

\* Two calls requested the same symbol and received the same response or failure.
SameRun(a, b) ==
  /\ a.kind = b.kind
  /\ a.symbol = b.symbol
  /\ a.cause = b.cause
  /\ a.data = b.data

C9_SymbolUpperCased ==
  Analysed => analysisData.symbol = ToUpper(lastSettled.symbol)

\* C10: loading eventually becomes false in StockAnalysis and in Home, even
\* when the server never answers.
C10_LoadingEventuallyFalse ==
  <>(loading = FALSE) /\ <>(homeLoading = FALSE)

Min(a, b) == IF a <= b THEN a ELSE b

\* the articles of the response the last successful fetchAnalysis read
ResponseArticles == lastSettled.data.complete_analysis.sentiment_analysis.news_articles

\* C11: StockAnalysis renders exactly the first min(5, n) articles of the
\* response, in response order, and Home keeps exactly the first min(3, n)
\* articles of the news response in newsData.
C11_FirstArticlesInOrder ==
  /\ (Analysed /\ ~loading /\ lastSettled.kind = "ok")
       => /\ Len(RenderedArticles) = Min(5, Len(ResponseArticles))
          /\ \A k \in 1..Len(RenderedArticles) : RenderedArticles[k] = ResponseArticles[k]
  /\ (homePc = "done" /\ newsResult.tag = "array")
       => /\ Len(newsData) = Min(3, Len(newsResult.items))
          /\ \A k \in 1..Len(newsData) : newsData[k] = newsResult.items[k]

C11_LongListsCut ==
  /\ Analysed /\ ~loading /\ lastSettled.kind = "ok"
  /\ Len(ResponseArticles) = MaxArticles
  /\ Len(RenderedArticles) = 5
  /\ homePc = "done" /\ newsResult.tag = "array"
  /\ Len(newsResult.items) > 3
  /\ newsResult.items[1] # Article(1)
  /\ Len(newsData) = 3

\* the last fetchAnalysis read a response in the documented layout
DocumentedResponse ==
  /\ version = "transforming"
  /\ lastSettled.kind # "none"
  /\ lastSettled.data \in FullBodies(lastSettled.symbol)

\* C12: on every OK response in the documented layout the transformation
\* succeeds, the fallback is not taken, and each field of the result is the
\* response field it is documented to come from (volatility and the
\* recommendation confidence times 100).
C12_TransformationFieldByField ==
  DocumentedResponse =>
    LET ca == lastSettled.data.complete_analysis
        sa == ca.sentiment_analysis
        fa == ca.fundamental_analysis
        rec == ca.recommendation
    IN /\ lastSettled.kind = "ok"
       /\ analysisData.tag = "analysis"
       /\ analysisData.symbol = lastSettled.data.symbol
       /\ analysisData.sentiment.overall_sentiment = sa.overall_sentiment
       /\ analysisData.sentiment.positive_count = sa.positive_count
       /\ analysisData.sentiment.negative_count = sa.negative_count
       /\ analysisData.sentiment.neutral_count = sa.neutral_count
       /\ analysisData.fundamentals.rsi = fa.technical_indicators.momentum_indicators.RSI
       /\ analysisData.fundamentals.volatility = 100 * fa.risk_metrics.volatility
       /\ analysisData.recommendation.action = rec.action
       /\ analysisData.recommendation.confidence = 100 * rec.confidence_score
       /\ analysisData.recommendation.reasoning = rec.supporting_factors
       /\ analysisData.news_articles = sa.news_articles

C12_DocumentedResponseTransformed ==
  /\ DocumentedResponse
  /\ Len(ResponseArticles) = 3
  /\ analysisData.fundamentals.rsi = 75000
  /\ analysisData.fundamentals.volatility = 25000
  /\ analysisData.recommendation.confidence > 0

\* the batch body Home read knew some of the requested symbols and not others
MixedBatch(S) ==
  /\ S # {} /\ S # 1..Len(HomeSymbols)
  /\ stockResult = BatchQuotes(S)

\* C13: a batch quote request with valid and invalid symbols yields the
\* valid symbols' quotes and a marker for each invalid one, and Home ends with
\* stockData holding the valid quotes.
C13_PartialBatchKept ==
  \A S \in SUBSET (1..Len(HomeSymbols)) :
    (MixedBatch(S) /\ homePc = "done")
      => /\ stockData = QuoteList(S)
         /\ \A i \in 1..Len(HomeSymbols) :
              /\ i \in S <=> \E k \in 1..Len(stockData) : stockData[k] = Quote(i)
              /\ i \notin S <=> \E k \in 1..Len(stockResult.errors) :
                                  stockResult.errors[k].symbol = HomeSymbols[i]

C13_ValidQuoteOfMixedBatch ==
  /\ MixedBatch({1})
  /\ homePc = "done"
  /\ newsResult = Unparsable
  /\ stockData = <<Quote(1)>>

\* C14: no request is retried. A StockAnalysis request is issued only by the
\* mount or by a change of the symbol, one at a time, and a request that has
\* moved on or ended is never issued again; Home requests the quotes only from
\* its mount and the news only after the quotes, and nothing once it has ended.
C14_NoRetry ==
  [][/\ Len(fetches') \in {Len(fetches), Len(fetches) + 1}
     /\ Len(fetches') = Len(fetches) + 1 => (fetches = <<>> \/ symbol' # symbol)
     /\ \A i \in 1..Len(fetches) :
          /\ fetches'[i].symbol = fetches[i].symbol
          /\ fetches'[i].stage = "fetch" => fetches[i].stage = "fetch"
          /\ fetches[i].stage = "done" => fetches'[i].stage = "done"
     /\ homePc' = "stockFetch" => (homePc = "mount" \/ UNCHANGED homeVars)
     /\ homePc' = "newsFetch" => (homePc = "stockJson" \/ UNCHANGED homeVars)
     /\ homePc = "done" => homePc' = "done"]_vars

C14_FailedAndNotReissued ==
  /\ homePc = "done" /\ stockResult = NoBody
  /\ Len(fetches) = 1
  /\ fetches[1].stage = "done"
  /\ lastSettled.kind = "failed"

\* every fetchAnalysis call issued has run its finally
AllSettled ==
  /\ fetches # <<>>
  /\ \A i \in 1..Len(fetches) : fetches[i].stage = "done"

\* C15: once every fetch has settled, in whatever order, analysisData is the
\* result or the fallback of the most recently requested symbol, never that
\* of a superseded request.
C15_LatestSymbolWins ==
  AllSettled => lastSettled.symbol = symbol

\* C16: in StockAnalysis loading is true in every state in which a fetch for
\* the current symbol is still in flight, across symbol changes and
\* overlapping requests.
C16_LoadingWhileInFlight ==
  (\E i \in 1..Len(fetches) : fetches[i].symbol = symbol /\ fetches[i].stage # "done")
    => loading

\* C17: when every issued fetch eventually settles, loading eventually
\* becomes false in StockAnalysis and in Home, whatever the outcome of each
\* request, and the skeleton is left for good once all requests have settled.
C17_SkeletonLeft ==
  <>[](AllSettled /\ ~loading /\ homePc = "done" /\ ~homeLoading)

C17_LeftAfterMalformedBodies ==
  /\ AllSettled /\ ~loading
  /\ lastSettled.cause = "unreadable"
  /\ homePc = "done" /\ ~homeLoading
  /\ newsResult = ErrorBody

\* C18: in the transforming version, whenever loading is false after a fetch
\* has settled, analysisData is non-null: it is the whole transformation of
\* the response the last settled call read, or the whole sample record of that
\* call, and each settling step sets it once to one of the two.
C18_TransformedOrSample ==
  (version = "transforming" /\ ~loading /\ lastSettled.kind # "none")
    => /\ analysisData # Null
       /\ lastSettled.kind = "ok" => analysisData = TransformData(lastSettled.data)
       /\ lastSettled.kind = "failed" => analysisData = MockData(lastSettled.symbol)

C18_TransformedAfterOverlap ==
  /\ DocumentedResponse /\ ~loading
  /\ Len(fetches) = 2 /\ AllSettled
  /\ lastSettled.fetch = 1
  /\ Len(ResponseArticles) = 1
  /\ analysisData = TransformData(lastSettled.data)

\* C19: every non-null analysisData, in both versions, has its sentiment,
\* fundamentals and recommendation sections, so rendering never dereferences
\* a missing section.
C19_SectionsDefined ==
  analysisData # Null
    => \A part \in {"sentiment", "fundamentals", "recommendation"} : Has(analysisData, part)

\* C20: in Home a failure of the news fetch (a rejected fetch, an unparsable
\* body or a body that is not a list) leaves stockData as the stock fetch set
\* it and leaves newsData empty.
C20_NewsFailureKeepsQuotes ==
  (homePc = "done" /\ IsObject(stockResult) /\ newsResult.tag # "array")
    => /\ stockData = StockDataOf(stockResult)
       /\ newsData = <<>>

\* C21: Home issues the news request only from the step that has received
\* and parsed the stock response; when the stock fetch fails (the fetch
\* rejects, or its body cannot be parsed or read) fetchData ends there with
\* loading false, no news request is issued and stockData and newsData are
\* empty.
C21_NewsAfterQuotes ==
  [][/\ (homePc' = "newsFetch" /\ homePc # "newsFetch")
          => (homePc = "stockJson" /\ IsObject(stockResult'))
     /\ (homePc' \in {"newsFetch", "newsJson"} \/ newsResult' # NoBody)
          => IsObject(stockResult')
     /\ (homePc = "stockJson" /\ homePc' # homePc /\ ~IsObject(stockResult'))
          => homePc' = "done"
     /\ (homePc \in {"stockFetch", "stockJson"} /\ homePc' = "done")
          => /\ ~homeLoading'
             /\ stockData' = <<>> /\ newsData' = <<>> /\ newsResult' = NoBody
     /\ (homePc = "done" /\ ~IsObject(stockResult))
          => /\ homePc' = "done" /\ ~homeLoading'
             /\ stockData' = <<>> /\ newsData' = <<>> /\ newsResult' = NoBody]_vars

C21_EndedAtUnparsableQuotes ==
  /\ homePc = "done" /\ ~homeLoading
  /\ stockResult = Unparsable
  /\ newsResult = NoBody
  /\ stockData = <<>> /\ newsData = <<>>

\* C22: on the success path the two confidences agree: for every
\* confidence_score of 0 to 1, 0 included, sentiment.confidence is the
\* response's confidence_score and recommendation.confidence is 100 times it.
C22_ConfidencesAgree ==
  (Analysed /\ lastSettled.kind = "ok"
     /\ lastSettled.data.complete_analysis.recommendation.confidence_score \in 0..1000)
    => LET c == lastSettled.data.complete_analysis.recommendation.confidence_score
       IN /\ analysisData.sentiment.confidence = c
          /\ analysisData.recommendation.confidence = 100 * c

\* C23: in every displayed analysis the positive, negative and neutral counts
\* add up to the number of articles in news_articles, the number the
\* component reports as analysed.
C23_CountsSumToArticles ==
  (Analysed /\ ~loading)
    => analysisData.sentiment.positive_count + analysisData.sentiment.negative_count
         + analysisData.sentiment.neutral_count = Len(analysisData.news_articles)

\* C24: badge colour and label agree for every score: the overall badge is
\* green exactly when it reads Bullish, red exactly when Bearish, gray exactly
\* when Neutral, and the per-article badges of StockAnalysis and Home pair
\* green, red, gray with Positive, Negative, Neutral.
C24_ColourMatchesLabel ==
  shown.rendered =>
    /\ shown.overallColor = "text-green-600 bg-green-100" <=> shown.overallLabel = "Bullish"
    /\ shown.overallColor = "text-red-600 bg-red-100" <=> shown.overallLabel = "Bearish"
    /\ shown.overallColor = "text-gray-600 bg-gray-100" <=> shown.overallLabel = "Neutral"
    /\ \A badge \in {<<shown.articleColor, shown.articleLabel>>,
                      <<shown.homeColor, shown.homeLabel>>} :
         /\ badge[1] = "bg-green-100 text-green-700" <=> badge[2] = "Positive"
         /\ badge[1] = "bg-red-100 text-red-700" <=> badge[2] = "Negative"
         /\ badge[1] = "bg-gray-100 text-gray-700" <=> badge[2] = "Neutral"

C24_RedBearishNegative ==
  /\ shown.rendered
  /\ score = -101
  /\ shown.overallColor = "text-red-600 bg-red-100" /\ shown.overallLabel = "Bearish"
  /\ shown.articleColor = "bg-red-100 text-red-700" /\ shown.articleLabel = "Negative"
  /\ shown.homeColor = "bg-red-100 text-red-700" /\ shown.homeLabel = "Negative"

====
